---- MODULE Spec2Model ----
(***************************************************************************)
(* scripts/abi_check.py: one run of run_main, from argument parsing to the *)
(* process exit.  The external tools (git, make, abi-dumper,               *)
(* abi-compliance-checker, generate_psa_tests.py) are the environment:     *)
(* each call either succeeds or exits with an error, chosen with \E.       *)
(* abi-dumper and abi-compliance-checker create the directory of the       *)
(* output path they are given; the script itself never creates report_dir. *)
(* With -stdout (brief mode) the comparator writes no report file and      *)
(* prints well-formed XML.                                                 *)
(***************************************************************************)
EXTENDS Integers, Sequences, FiniteSets, TLC

\* Bounds of the model.
NumModules == 2
NumTests == 2
MaxFirstLine == 1
MaxReturnCode == 2
MaxLineLen == 3
MaxFileLen == 3
NumFiles == 2
MaxChildren == 3

Versions == {"old", "new"}
\* Names of the shared libraries a build can produce (file base names).
Modules == 1..NumModules
\* Normalized storage test case data lines (the keys of storage_tests).
TestData == 1..NumTests
\* Provenance recorded for the storage test case test_data of a data file
\* whose first test case data line is line first (abi_check.py:325-329).
Metadata(first, test_data) ==
    [filename |-> "test_suite_psa_crypto_storage_format.data",
     line_number |-> first + 3 * (test_data - 1),
     description |-> "read"]
\* Exit codes of abi-compliance-checker.
ReturnCodes == 0..MaxReturnCode
\* The process has not exited yet.
Running == -1

VARIABLES
    cfg,                    \* the parsed command line (abi_args / configuration)
    pc,                     \* position of run_main
    cur,                    \* version _get_abi_dump_for_ref is working on
    report_dir,             \* what exists at the report_dir path
    can_remove_report_dir,  \* AbiChecker.can_remove_report_dir
    worktree,               \* per version: the mkdtemp directory
    removals,               \* per version: successful shutil.rmtree calls
    commit,                 \* per version: version.commit
    modules,                \* per version: keys of version.modules
    abi_dumps,              \* per version: keys of version.abi_dumps
    storage_tests,          \* per version: version.storage_tests
    dump_files,             \* .dump files that exist under report_dir
    report_files,           \* report files that exist under report_dir
    shared_modules,         \* the part of shared_modules still to iterate
    compatibility_report,   \* the list compatibility_report
    compliance_return_code, \* the local of get_abi_compatibility_report
    exit_status,            \* status the process exited with
    returncode,             \* per module: exit code the comparator gave
    verdict,                \* per module: how _is_library_compatible ended
    calls,                  \* per module: number of comparator invocations
    tools_invoked,          \* an external tool has been run
    tool_failed,            \* the environment made a tool or file call fail
    storage_verdict,        \* how _is_storage_format_compatible ended
    raised_at,              \* step that raised the exception ending the run
    call_args,              \* arguments of a function called on its own
    call_result             \* what the calls of that function returned

callVars == <<call_args, call_result>>

runVars == <<cfg, pc, cur, report_dir, can_remove_report_dir, worktree,
             removals, commit, modules, abi_dumps, storage_tests, dump_files,
             report_files, shared_modules, compatibility_report,
             compliance_return_code, exit_status, returncode, verdict, calls,
             tools_invoked, tool_failed, storage_verdict, raised_at>>

vars == <<callVars, cfg, pc, cur, report_dir, can_remove_report_dir, worktree, removals,
          commit, modules, abi_dumps, storage_tests, dump_files, report_files,
          shared_modules, compatibility_report, compliance_return_code,
          exit_status, returncode, verdict, calls, tools_invoked, tool_failed,
          storage_verdict, raised_at>>

fsVars == <<report_dir, worktree, removals, dump_files, report_files>>
versionVars == <<commit, modules, abi_dumps, storage_tests>>
diffVars == <<shared_modules, compatibility_report, compliance_return_code,
              returncode, verdict, calls, storage_verdict>>

----
\* Pure helpers.

RECURSIVE SortedSeq(_)
\* sorted(missing): the elements of S in increasing order.
SortedSeq(S) ==
    IF S = {} THEN <<>>
    ELSE LET m == CHOOSE x \in S : \A y \in S : x <= y
         IN <<m>> \o SortedSeq(S \ {m})

\* The storage test maps a revision can yield: normalized identity ->
\* provenance, for a data file holding the test cases K from line first on,
\* three lines (description, data, blank) per test case.
TestMaps ==
    {[k \in K |-> Metadata(first, k)] :
        K \in SUBSET TestData, first \in 1..MaxFirstLine}

\* Variant: every module of the old version is taken as shared.
SharedModulesOld(old_modules, new_modules) == old_modules

\* set(old.modules.keys()) & set(new.modules.keys())  (abi_check.py:494-495)
SharedModules(old_modules, new_modules) == old_modules \cap new_modules

\* Variant: every nonzero exit code is taken as an incompatibility.
LibraryOutcomeNonzero(rc) == IF rc = 0 THEN "compatible" ELSE "incompatible"

\* How _is_library_compatible ends for a comparator exit code
\* (abi_check.py:437-459): 0 returns True, 1 returns False, anything else
\* is raised again.
LibraryOutcome(rc) ==
    IF rc = 0 THEN "compatible"
    ELSE IF rc = 1 THEN "incompatible"
    ELSE "raised"

\* Variant: the result of the last library compared wins.
AfterLibraryLast(code, compatible) == IF compatible THEN 0 ELSE 1

\* compliance_return_code after one _is_library_compatible call
\* (abi_check.py:497-499).
AfterLibrary(code, compatible) == IF compatible THEN code ELSE 1

\* compliance_return_code after the storage check (abi_check.py:501-506).
AfterStorage(code, compatible) == IF compatible THEN code ELSE 1

\* Variant: no difference is taken, every old test case counts as missing.
MissingTestsOld(old_tests, new_tests) == DOMAIN old_tests

\* Variant: a test case whose provenance changed counts as missing too.
MissingTestsByProvenance(old_tests, new_tests) ==
    {t \in DOMAIN old_tests :
        t \notin DOMAIN new_tests \/ new_tests[t] # old_tests[t]}

\* missing = frozenset(old_tests.keys()).difference(new_tests.keys())
\* (abi_check.py:468)
MissingTests(old_tests, new_tests) == (DOMAIN old_tests) \ (DOMAIN new_tests)

\* The findings _is_storage_format_compatible appends (abi_check.py:469-481).
StorageFindings(old_tests, new_tests) ==
    LET missing == MissingTests(old_tests, new_tests)
        sorted == SortedSeq(missing)
    IN [i \in 1..Len(sorted) |->
            [kind |-> "disappeared", test_data |-> sorted[i],
             metadata |-> old_tests[sorted[i]]]]
       \o <<[kind |-> "summary", pass |-> (missing = {}),
             missing |-> Cardinality(missing),
             total |-> Cardinality(DOMAIN old_tests)]>>
       \o <<[kind |-> "info", old |-> Cardinality(DOMAIN old_tests),
             new |-> Cardinality(DOMAIN new_tests)]>>

\* return not missing  (abi_check.py:482)
IsStorageFormatCompatible(old_tests, new_tests) ==
    MissingTests(old_tests, new_tests) = {}

\* Variant: the constructor does not compare the two switches.
ConfigurationAccepted(c) == FALSE

\* if self.check_abi != self.check_api: raise  (abi_check.py:148-149)
ConfigurationRejected(c) == c.check_abi # c.check_api

\* not (os.path.exists(self.report_dir) or self.keep_all_reports)
\* (abi_check.py:141-142)
CanRemoveReportDir(dir, c) == ~(dir # "absent" \/ c.keep_all_reports)

\* Variant: the report of a compatible library is never removed.
KeepsCompatibleReportAlways(c) == ~c.brief

\* The report of a compatible library stays on disk: the comparator wrote it
\* (full mode) and "if not (keep_all_reports or brief): os.remove" did not run
\* (abi_check.py:457-458).
KeepsCompatibleReport(c) == ~c.brief /\ c.keep_all_reports

\* Status of sys.exit in the except clause of run_main (abi_check.py:645).
ExceptionStatus == 2
\* Status of parser.exit() called without arguments (abi_check.py:605).
ParserExitStatus == 0

\* if self.check_api or self.check_abi: check_abi_tools_are_installed()
\* (abi_check.py:520-521)
ChecksTools(c) == c.check_api \/ c.check_abi

\* Variant: the libraries are built whatever the switches.
StepAfterUngated(s, c) ==
    CASE s = "worktree" -> "submodules"
      [] s = "submodules" -> "build"
      [] s = "build" -> "dump"
      [] s = "dump" -> IF c.check_storage THEN "storage" ELSE "cleanup"
      [] s = "storage" -> "cleanup"

\* The step of _get_abi_dump_for_ref that follows step s (abi_check.py:384-391).
StepAfter(s, c) ==
    CASE s = "worktree" -> "submodules"
      [] s = "submodules" -> IF c.check_abi THEN "build"
                             ELSE IF c.check_storage THEN "storage"
                             ELSE "cleanup"
      [] s = "build" -> "dump"
      [] s = "dump" -> IF c.check_storage THEN "storage" ELSE "cleanup"
      [] s = "storage" -> "cleanup"

\* Variant: the two versions are one object, written through either name.
SetAttrShared(attribute, version, value) ==
    [v \in DOMAIN attribute |-> value]

\* An attribute of old_version or new_version is written: the two are
\* separate objects with dictionaries of their own (abi_check.py:606-627).
SetAttr(attribute, version, value) == [attribute EXCEPT ![version] = value]

\* Variant: the worktree directory is left in place.
RmtreeKeeps(w, version) == w

\* shutil.rmtree(git_worktree_path)  (abi_check.py:374)
Rmtree(w, version) == [w EXCEPT ![version] = "removed"]

\* Variant: only the dumps of the shared modules are removed.
RemoveDumpsShared(files, dumps) ==
    files \ {<<v, m>> : v \in Versions, m \in dumps["old"] \cap dumps["new"]}

\* for version in [old, new]: for ... in version.abi_dumps.items():
\* os.remove(mbed_module_dump)  (abi_check.py:508-510)
RemoveDumps(files, dumps) ==
    files \ UNION {{<<v, m>> : m \in dumps[v]} : v \in Versions}

\* os.rmdir raises when the directory is missing or not empty.
RmdirFails(dir, dumps, reports) == dir # "dir" \/ dumps # {} \/ reports # {}

----
Configurations ==
    [check_abi : BOOLEAN, check_api : BOOLEAN, check_storage : BOOLEAN,
     brief : BOOLEAN, keep_all_reports : BOOLEAN,
     report_dir : {"absent", "dir", "file"}]

\* The defaults of the argument parser (abi_check.py:530-601).
DefaultConfiguration ==
    [check_abi |-> TRUE, check_api |-> TRUE, check_storage |-> TRUE,
     brief |-> FALSE, keep_all_reports |-> FALSE, report_dir |-> "absent"]

\* run_main has not started: the version records are as constructed
\* (abi_check.py:606-627).
NotStarted ==
    /\ pc = "parse_args"
    /\ cur = "old"
    /\ report_dir = cfg.report_dir
    /\ can_remove_report_dir = FALSE
    /\ worktree = [v \in Versions |-> "none"]
    /\ removals = [v \in Versions |-> 0]
    /\ commit = [v \in Versions |-> "None"]
    /\ modules = [v \in Versions |-> {}]
    /\ abi_dumps = [v \in Versions |-> {}]
    /\ storage_tests = [v \in Versions |-> <<>>]
    /\ dump_files = {}
    /\ report_files = {}
    /\ shared_modules = {}
    /\ compatibility_report = <<>>
    /\ compliance_return_code = 0
    /\ exit_status = Running
    /\ returncode = [m \in Modules |-> -1]
    /\ verdict = [m \in Modules |-> "none"]
    /\ calls = [m \in Modules |-> 0]
    /\ tools_invoked = FALSE
    /\ tool_failed = FALSE
    /\ storage_verdict = "none"
    /\ raised_at = "none"

Init ==
    /\ cfg \in Configurations
    /\ NotStarted
    /\ call_args = <<>>
    /\ call_result = <<>>

\* An exception leaves the try block of run_main: traceback, sys.exit(2)
\* (abi_check.py:641-645).  env: the environment made a call fail.
Raise(where, env) ==
    /\ pc' = "done"
    /\ exit_status' = ExceptionStatus
    /\ raised_at' = where
    /\ tool_failed' = (tool_failed \/ env)

NoRaise == UNCHANGED <<exit_status, raised_at, tool_failed>>

\* run_main up to the construction of the checker (abi_check.py:602-605).
ParseArgs ==
    /\ pc = "parse_args"
    /\ IF report_dir = "file"
       THEN /\ pc' = "done"
            /\ exit_status' = ParserExitStatus
       ELSE /\ pc' = "init"
            /\ UNCHANGED exit_status
    /\ UNCHANGED <<callVars, cfg, cur, can_remove_report_dir, fsVars, versionVars,
                   diffVars, tools_invoked, tool_failed, raised_at>>

\* AbiChecker.__init__ (abi_check.py:122-153).
AbiCheckerInit ==
    /\ pc = "init"
    /\ can_remove_report_dir' = CanRemoveReportDir(report_dir, cfg)
    /\ IF ConfigurationRejected(cfg)
       THEN Raise("init", FALSE)
       ELSE pc' = "check" /\ NoRaise
    /\ UNCHANGED <<callVars, cfg, cur, fsVars, versionVars, diffVars, tools_invoked>>

\* check_for_abi_changes before the first pipeline (abi_check.py:519-521).
CheckForAbiChanges ==
    /\ pc = "check"
    /\ \E repo_ok \in BOOLEAN, installed \in BOOLEAN :
          IF ~repo_ok THEN Raise("check", TRUE)
          ELSE IF ChecksTools(cfg) /\ ~installed THEN Raise("tools", TRUE)
          ELSE pc' = "worktree" /\ NoRaise
    /\ cur' = "old"
    /\ UNCHANGED <<callVars, cfg, can_remove_report_dir, fsVars, versionVars, diffVars,
                   tools_invoked>>

\* _get_clean_worktree_for_git_revision (abi_check.py:169-201).
GetCleanWorktree ==
    /\ pc = "worktree"
    /\ \E outcome \in {"mkdtemp_failed", "git_failed", "ok"} :
          CASE outcome = "mkdtemp_failed" ->
                  /\ Raise(pc, TRUE)
                  /\ UNCHANGED <<worktree, commit, tools_invoked>>
            [] outcome = "git_failed" ->
                  \* git fetch, git worktree add or git rev-parse failed
                  /\ Raise(pc, TRUE)
                  /\ worktree' = [worktree EXCEPT ![cur] = "present"]
                  /\ tools_invoked' = TRUE
                  /\ UNCHANGED commit
            [] outcome = "ok" ->
                  /\ pc' = StepAfter("worktree", cfg)
                  /\ NoRaise
                  /\ worktree' = [worktree EXCEPT ![cur] = "present"]
                  /\ commit' = SetAttr(commit, cur, "resolved")
                  /\ tools_invoked' = TRUE
    /\ UNCHANGED <<callVars, cfg, cur, can_remove_report_dir, report_dir, removals,
                   dump_files, report_files, modules, abi_dumps, storage_tests,
                   diffVars>>

\* _update_git_submodules (abi_check.py:203-234).
UpdateGitSubmodules ==
    /\ pc = "submodules"
    /\ tools_invoked' = TRUE
    /\ \E ok \in BOOLEAN :
          IF ok THEN pc' = StepAfter("submodules", cfg) /\ NoRaise
          ELSE Raise(pc, TRUE)
    /\ UNCHANGED <<callVars, cfg, cur, can_remove_report_dir, fsVars, versionVars,
                   diffVars>>

\* _build_shared_libraries (abi_check.py:236-254): make lib, then every *.so
\* found in the worktree is recorded under its base name.
BuildSharedLibraries ==
    /\ pc = "build"
    /\ tools_invoked' = TRUE
    /\ \/ /\ Raise(pc, TRUE)
          /\ UNCHANGED modules
       \/ \E found \in SUBSET Modules :
             /\ modules' = SetAttr(modules, cur, modules[cur] \cup found)
             /\ pc' = StepAfter("build", cfg)
             /\ NoRaise
    /\ UNCHANGED <<callVars, cfg, cur, can_remove_report_dir, fsVars, commit, abi_dumps,
                   storage_tests, diffVars>>

\* _get_abi_dumps_from_shared_libraries (abi_check.py:263-283): abi-dumper
\* runs for the modules in turn; the loop stops at the first call that fails,
\* after the dumps in done were written.
GetAbiDumpsFromSharedLibraries ==
    /\ pc = "dump"
    /\ \E done \in SUBSET modules[cur] :
          /\ abi_dumps' = SetAttr(abi_dumps, cur, abi_dumps[cur] \cup done)
          /\ dump_files' = dump_files \cup {<<cur, m>> : m \in done}
          /\ report_dir' = IF done # {} THEN "dir" ELSE report_dir
          /\ IF done = modules[cur]
             THEN pc' = StepAfter("dump", cfg) /\ NoRaise
             ELSE Raise(pc, TRUE)
    /\ tools_invoked' = (tools_invoked \/ modules[cur] # {})
    /\ UNCHANGED <<callVars, cfg, cur, can_remove_report_dir, worktree, removals,
                   report_files, commit, modules, storage_tests, diffVars>>

\* _get_storage_format_tests (abi_check.py:341-370): list and generate the
\* data files, then read them into version.storage_tests.  tests is what
\* the files of the revision hold.
GetStorageFormatTests ==
    /\ pc = "storage"
    /\ tools_invoked' = TRUE
    /\ \/ /\ Raise(pc, TRUE)
          /\ UNCHANGED storage_tests
       \/ \E tests \in TestMaps :
             /\ storage_tests' =
                   SetAttr(storage_tests, cur, tests @@ storage_tests[cur])
             /\ pc' = StepAfter("storage", cfg)
             /\ NoRaise
    /\ UNCHANGED <<callVars, cfg, cur, can_remove_report_dir, fsVars, commit, modules,
                   abi_dumps, diffVars>>

\* _cleanup_worktree (abi_check.py:372-380), and the return of
\* _get_abi_dump_for_ref to check_for_abi_changes (abi_check.py:522-524).
CleanupWorktree ==
    /\ pc = "cleanup"
    /\ \E outcome \in {"rmtree_failed", "prune_failed", "ok"} :
          CASE outcome = "rmtree_failed" ->
                  /\ Raise(pc, TRUE)
                  /\ UNCHANGED <<worktree, removals, tools_invoked, cur>>
            [] outcome = "prune_failed" ->
                  /\ Raise(pc, TRUE)
                  /\ worktree' = Rmtree(worktree, cur)
                  /\ removals' = [removals EXCEPT ![cur] = @ + 1]
                  /\ tools_invoked' = TRUE
                  /\ UNCHANGED cur
            [] outcome = "ok" ->
                  /\ worktree' = Rmtree(worktree, cur)
                  /\ removals' = [removals EXCEPT ![cur] = @ + 1]
                  /\ tools_invoked' = TRUE
                  /\ pc' = IF cur = "old" THEN "worktree" ELSE "report"
                  /\ cur' = "new"
                  /\ NoRaise
    /\ UNCHANGED <<callVars, cfg, can_remove_report_dir, report_dir, dump_files,
                   report_files, versionVars, diffVars>>

\* get_abi_compatibility_report up to the loop over shared_modules
\* (abi_check.py:488-495).
StartReport ==
    /\ pc = "report"
    /\ compatibility_report' = <<[kind |-> "header"]>>
    /\ compliance_return_code' = 0
    /\ shared_modules' = IF cfg.check_abi
                         THEN SharedModules(modules["old"], modules["new"])
                         ELSE {}
    /\ pc' = IF shared_modules' # {} THEN "compare" ELSE "storage_diff"
    /\ UNCHANGED <<callVars, cfg, cur, can_remove_report_dir, fsVars, versionVars,
                   returncode, verdict, calls, storage_verdict, tools_invoked,
                   tool_failed, exit_status, raised_at>>

\* One iteration of the loop over shared_modules: _is_library_compatible
\* (abi_check.py:430-459) and the update of compliance_return_code
\* (abi_check.py:496-499).  list(set(...)) fixes no order: any module left.
IsLibraryCompatible(mbed_module) ==
    /\ pc = "compare"
    /\ mbed_module \in shared_modules
    /\ tools_invoked' = TRUE
    /\ calls' = [calls EXCEPT ![mbed_module] = @ + 1]
    /\ \E rc \in ReturnCodes :
          LET outcome == LibraryOutcome(rc) IN
          /\ returncode' = [returncode EXCEPT ![mbed_module] = rc]
          /\ verdict' = [verdict EXCEPT ![mbed_module] = outcome]
          /\ CASE outcome = "compatible" ->
                    /\ compatibility_report' = Append(compatibility_report,
                          [kind |-> "compatible", module |-> mbed_module])
                    /\ report_files' = IF KeepsCompatibleReport(cfg)
                                       THEN report_files \cup {mbed_module}
                                       ELSE report_files
                    /\ UNCHANGED can_remove_report_dir
               [] outcome = "incompatible" ->
                    IF cfg.brief
                    THEN UNCHANGED <<compatibility_report, report_files,
                                     can_remove_report_dir>>
                    ELSE /\ can_remove_report_dir' = FALSE
                         /\ report_files' = report_files \cup {mbed_module}
                         /\ compatibility_report' = Append(compatibility_report,
                               [kind |-> "incompatible", module |-> mbed_module,
                                path |-> mbed_module])
               [] outcome = "raised" ->
                    UNCHANGED <<compatibility_report, report_files,
                                can_remove_report_dir>>
          /\ IF outcome = "raised"
             THEN /\ Raise(pc, TRUE)
                  /\ UNCHANGED <<shared_modules, compliance_return_code>>
             ELSE /\ compliance_return_code' =
                        AfterLibrary(compliance_return_code,
                                     outcome = "compatible")
                  /\ shared_modules' = shared_modules \ {mbed_module}
                  /\ pc' = IF shared_modules' # {} THEN "compare"
                           ELSE "storage_diff"
                  /\ NoRaise
    /\ UNCHANGED <<callVars, cfg, cur, report_dir, worktree, removals, dump_files,
                   versionVars, storage_verdict>>

\* The storage check of get_abi_compatibility_report (abi_check.py:501-506)
\* with _is_storage_format_compatible (abi_check.py:461-482).
StorageDiff ==
    /\ pc = "storage_diff"
    /\ IF cfg.check_storage
       THEN /\ compatibility_report' = compatibility_report \o
                  StorageFindings(storage_tests["old"], storage_tests["new"])
            /\ storage_verdict' =
                  IF IsStorageFormatCompatible(storage_tests["old"],
                                               storage_tests["new"])
                  THEN "compatible" ELSE "incompatible"
            /\ compliance_return_code' =
                  AfterStorage(compliance_return_code,
                               storage_verdict' = "compatible")
       ELSE UNCHANGED <<compatibility_report, compliance_return_code,
                        storage_verdict>>
    /\ pc' = "finish"
    /\ UNCHANGED <<callVars, cfg, cur, can_remove_report_dir, fsVars, versionVars,
                   shared_modules, returncode, verdict, calls, tools_invoked,
                   tool_failed, exit_status, raised_at>>

\* The end of get_abi_compatibility_report: removal of the dumps of both
\* versions (abi_check.py:508-510), removal of the report directory
\* (abi_check.py:511-512), the log and the return (abi_check.py:513-514),
\* and sys.exit(return_code) in run_main (abi_check.py:639-640).
FinishReport ==
    /\ pc = "finish"
    /\ \/ \* an os.remove call fails
          /\ dump_files # {}
          /\ Raise("remove_dumps", TRUE)
          /\ UNCHANGED <<dump_files, report_dir>>
       \/ /\ \A v \in Versions : \A m \in abi_dumps[v] : <<v, m>> \in dump_files
          /\ dump_files' = RemoveDumps(dump_files, abi_dumps)
          /\ IF can_remove_report_dir
             THEN IF RmdirFails(report_dir, dump_files', report_files)
                  THEN /\ Raise("rmdir", FALSE)
                       /\ UNCHANGED report_dir
                  ELSE /\ report_dir' = "absent"
                       /\ pc' = "done"
                       /\ exit_status' = compliance_return_code
                       /\ UNCHANGED <<raised_at, tool_failed>>
             ELSE /\ pc' = "done"
                  /\ exit_status' = compliance_return_code
                  /\ UNCHANGED <<report_dir, raised_at, tool_failed>>
    /\ UNCHANGED <<callVars, cfg, cur, can_remove_report_dir, worktree, removals,
                   report_files, versionVars, diffVars, tools_invoked>>

Next ==
    \/ ParseArgs
    \/ AbiCheckerInit
    \/ CheckForAbiChanges
    \/ GetCleanWorktree
    \/ UpdateGitSubmodules
    \/ BuildSharedLibraries
    \/ GetAbiDumpsFromSharedLibraries
    \/ GetStorageFormatTests
    \/ CleanupWorktree
    \/ StartReport
    \/ \E mbed_module \in Modules : IsLibraryCompatible(mbed_module)
    \/ StorageDiff
    \/ FinishReport

Spec == Init /\ [][Next]_vars

TypeOK ==
    /\ pc \in {"parse_args", "init", "check", "worktree", "submodules", "build",
               "dump", "storage", "cleanup", "report", "compare",
               "storage_diff", "finish", "done"}
    /\ exit_status \in {Running, 0, 1, 2}
    /\ (pc = "done") = (exit_status # Running)
    /\ (dump_files # {} \/ report_files # {}) => report_dir = "dir"
    \* every dump the versions record is on disk until the dumps are removed
    /\ pc # "done" =>
          \A v \in Versions : \A m \in abi_dumps[v] : <<v, m>> \in dump_files

----
\* Test data files.  A line is a sequence of pieces of text: single
\* characters and words; the text of the line is their concatenation.  No
\* concatenation of pieces spells another word, so a test on the text is a
\* test on the pieces.

Whitespace == {" ", "\t"}
Atoms == Whitespace \cup {"#", ":", "_", "read", "save", "depends", "on"}

\* The lines of at most n pieces.
Lines(n) == UNION {[1..k -> Atoms] : k \in 0..n}

RECURSIVE LStrip(_)
LStrip(line) ==
    IF line # <<>> /\ Head(line) \in Whitespace
    THEN LStrip(Tail(line)) ELSE line

RECURSIVE RStrip(_)
RStrip(line) ==
    IF line # <<>> /\ line[Len(line)] \in Whitespace
    THEN RStrip(SubSeq(line, 1, Len(line) - 1)) ELSE line

\* str.strip()
Strip(line) == RStrip(LStrip(line))

\* str.startswith(prefix)
StartsWith(line, prefix) ==
    Len(line) >= Len(prefix) /\ SubSeq(line, 1, Len(prefix)) = prefix

\* 'depends_on:'
DependsOn == <<"depends", "_", "on", ":">>

IsNotSpace(a) == a \notin Whitespace

\* Variant: only the whitespace around the line is removed.
NormalizeOuterWhitespace(line) == Strip(line)

\* _normalize_storage_test_case_data: re.sub(r'\s+', r'', line)
\* (abi_check.py:285-289).
NormalizeStorageTestCaseData(line) == SelectSeq(line, IsNotSpace)

\* text.split(sep, 1)[0]: the text before the first separator, the whole
\* text when there is none.
RECURSIVE Before(_, _)
Before(text, sep) ==
    IF text = <<>> \/ Head(text) = sep THEN <<>>
    ELSE <<Head(text)>> \o Before(Tail(text), sep)

\* text.split(sep)
RECURSIVE Split(_, _)
Split(text, sep) ==
    LET first == Before(text, sep)
    IN  IF Len(first) = Len(text) THEN <<first>>
        ELSE <<first>> \o Split(SubSeq(text, Len(first) + 2, Len(text)), sep)

Range(f) == {f[i] : i \in DOMAIN f}

\* Variant: 'read' in function_name, a substring test.
IsReadTestSubstring(test_case_data) ==
    "read" \in Range(Before(test_case_data, ":"))

\* 'read' in test_case_data.split(':', 1)[0].split('_')
\* (abi_check.py:321-323).
IsReadTest(test_case_data) ==
    <<"read">> \in Range(Split(Before(test_case_data, ":"), "_"))

\* One call, then a second one on its result, of
\* _normalize_storage_test_case_data on a line.
NormalizeInit ==
    /\ cfg = DefaultConfiguration
    /\ NotStarted
    /\ call_args \in [line : Lines(MaxLineLen)]
    /\ call_result = <<>>

NormalizeCall ==
    /\ Len(call_result) < 2
    /\ call_result' = Append(call_result,
          NormalizeStorageTestCaseData(
              IF call_result = <<>> THEN call_args.line
              ELSE call_result[Len(call_result)]))
    /\ UNCHANGED <<call_args, runVars>>

NormalizeSpec == NormalizeInit /\ [][NormalizeCall]_vars

\* Variant: the 'depends_on:' test comes before the paragraph test.
LineKindDependsFirst(line, at_paragraph_start) ==
    IF line = <<>> THEN "blank"
    ELSE IF StartsWith(line, <<"#">>) THEN "comment"
    ELSE IF StartsWith(line, DependsOn) THEN "depends_on"
    ELSE IF at_paragraph_start THEN "description"
    ELSE "data"

\* What the loop body of _read_storage_tests takes a stripped line for
\* (abi_check.py:306-318).
LineKind(line, at_paragraph_start) ==
    IF line = <<>> THEN "blank"
    ELSE IF StartsWith(line, <<"#">>) THEN "comment"
    ELSE IF at_paragraph_start THEN "description"
    ELSE IF StartsWith(line, DependsOn) THEN "depends_on"
    ELSE "data"

\* Variant: an identity already in the dictionary keeps its entry.
SetDefault(tests, test_case_data, metadata) ==
    tests @@ (test_case_data :> metadata)

\* storage_tests[test_case_data] = metadata  (abi_check.py:330)
SetItem(tests, test_case_data, metadata) ==
    (test_case_data :> metadata) @@ tests

\* The loop of _read_storage_tests from line line_number on
\* (abi_check.py:305-330).  st holds the locals at_paragraph_start and
\* description, the dictionary storage_tests, and data_lines: the numbers
\* of the lines that reached "a test case data line".
RECURSIVE ReadLines(_, _, _, _, _)
ReadLines(lines, line_number, filename, is_generated, st) ==
    IF line_number > Len(lines) THEN st
    ELSE
      LET line == Strip(lines[line_number])
          kind == LineKind(line, st.at_paragraph_start)
          test_case_data == NormalizeStorageTestCaseData(line)
          metadata == [filename |-> filename,
                       line_number |-> line_number,
                       description |-> st.description]
          after ==
            CASE kind = "blank" -> [st EXCEPT !.at_paragraph_start = TRUE]
              [] kind = "description" ->
                   [st EXCEPT !.description = Strip(line),
                              !.at_paragraph_start = FALSE]
              [] kind = "data" ->
                   IF ~is_generated /\ ~IsReadTest(test_case_data)
                   THEN [st EXCEPT !.data_lines = @ \cup {line_number}]
                   ELSE [st EXCEPT
                           !.data_lines = @ \cup {line_number},
                           !.storage_tests =
                               SetItem(@, test_case_data, metadata)]
              [] OTHER -> st
      IN  ReadLines(lines, line_number + 1, filename, is_generated, after)

\* _read_storage_tests (abi_check.py:291-330); description starts as None.
ReadStorageTests(lines, filename, is_generated, tests) ==
    ReadLines(lines, 1, filename, is_generated,
              [at_paragraph_start |-> TRUE, description |-> <<>>,
               storage_tests |-> tests, data_lines |-> {}])

\* Lines of every kind the parser tells apart: blank, comment, dependency
\* list, and test case data of read and of other functions, with and
\* without whitespace.
SampleLines ==
    { <<>>,
      <<" ">>,
      <<"#", "save">>,
      <<" ", "#", "read">>,
      <<"depends", "_", "on", ":", "save">>,
      <<"save", "_", "read", ":", "save">>,
      <<"save", " ", "_", "read", ":", "save", " ">>,
      <<"save", "_", "save", ":", "read">>,
      <<"read", "save", ":", "save">> }

\* The files of at most MaxFileLen sample lines, and the two-line files
\* whose second line is any line of at most MaxLineLen pieces.
TestFiles ==
    UNION {[1..k -> SampleLines] : k \in 0..MaxFileLen}
    \cup {<<<<"save">>, line>> : line \in Lines(MaxLineLen)}

\* One call of _read_storage_tests on a file, into an empty dictionary.
ReadInit ==
    /\ cfg = DefaultConfiguration
    /\ NotStarted
    /\ call_args \in [lines : TestFiles, filename : {"manual.data"},
                      is_generated : BOOLEAN]
    /\ call_result = <<>>

ReadCall ==
    /\ call_result = <<>>
    /\ call_result' = <<ReadStorageTests(call_args.lines, call_args.filename,
                                         call_args.is_generated, <<>>)>>
    /\ UNCHANGED <<call_args, runVars>>

ReadSpec == ReadInit /\ [][ReadCall]_vars

\* Provenance of the storage test case test_data when it was read from a
\* generated data file (abi_check.py:325-329).
GeneratedMetadata(test_data) ==
    [filename |-> "test_suite_psa_crypto_storage_format.current.data",
     line_number |-> 2 * test_data,
     description |-> "save"]

\* The storage test maps in which every test case comes from either file.
ProvenanceMaps ==
    UNION {{tests \in [K -> {Metadata(1, k) : k \in K}
                            \cup {GeneratedMetadata(k) : k \in K}] :
               \A k \in K : tests[k] \in {Metadata(1, k), GeneratedMetadata(k)}} :
           K \in SUBSET TestData}

\* The maps that have the test cases of tests, under any provenance.
SameTests(tests) == {other \in ProvenanceMaps : DOMAIN other = DOMAIN tests}

\* What _is_storage_format_compatible appends and returns
\* (abi_check.py:461-482).
StorageComparison(old_tests, new_tests) ==
    [missing |-> MissingTests(old_tests, new_tests),
     findings |-> StorageFindings(old_tests, new_tests),
     compatible |-> IsStorageFormatCompatible(old_tests, new_tests)]

\* _is_storage_format_compatible called on two pairs of maps that have the
\* same test cases.
StorageInit ==
    /\ cfg = DefaultConfiguration
    /\ NotStarted
    /\ \E old_tests \in ProvenanceMaps, new_tests \in ProvenanceMaps :
          \E old_other \in SameTests(old_tests),
             new_other \in SameTests(new_tests) :
              call_args = <<[old |-> old_tests, new |-> new_tests],
                            [old |-> old_other, new |-> new_other]>>
    /\ call_result = <<>>

StorageCall ==
    /\ Len(call_result) < Len(call_args)
    /\ LET pair == call_args[Len(call_result) + 1]
       IN  call_result' =
               Append(call_result, StorageComparison(pair.old, pair.new))
    /\ UNCHANGED <<call_args, runVars>>

StorageSpec == StorageInit /\ [][StorageCall]_vars

\* Names of test data files, in sorted order.  The names 1..NumFiles match
\* tests/suites/test_suite_*storage_format*.data; OtherDataFile is a
\* generated data file whose name does not hold 'storage_format'.
OtherDataFile == 0
StorageDataFiles == 1..NumFiles

\* 'storage_format' in filename  (abi_check.py:359)
HasStorageFormat(filename) == filename \in StorageDataFiles

\* What a hand-written storage format data file of a revision can hold.
HandWrittenFiles ==
    { << <<"save">>, <<"save", "_", "read", ":", "save">> >>,
      << <<"on">>, <<"read", ":", "on">>, <<"save", ":", "save">> >>,
      << <<"save">>, <<"save", "_", "read", ":", "save">>, <<>>,
         <<"on">>, <<"save", " ", "_", "read", ":", "save", " ">> >> }

\* What generate_psa_tests.py writes for a file of its list.
GeneratedFile(filename) ==
    << <<"depends">>, <<"save", ":", "read">>,
       <<"save", "_", "read", ":", "save">> >>

\* glob.glob('tests/suites/test_suite_*storage_format*.data'): a pattern
\* relative to the current directory of the process (abi_check.py:353-355).
Glob(cwd_files, worktree_files) == cwd_files

\* The loop over sorted(storage_data_files) from position i on
\* (abi_check.py:366-370); open() raises on a file the worktree lacks.
RECURSIVE ReadFiles(_, _, _, _, _)
ReadFiles(files, i, tree, to_be_generated, acc) ==
    IF i > Len(files) THEN acc
    ELSE IF files[i] \notin DOMAIN tree THEN [acc EXCEPT !.raised = TRUE]
    ELSE ReadFiles(files, i + 1, tree, to_be_generated,
            [acc EXCEPT
               !.parsed = @ \cup {files[i]},
               !.storage_tests =
                   ReadStorageTests(tree[files[i]], files[i],
                                    files[i] \in to_be_generated,
                                    @).storage_tests])

\* _get_storage_format_tests (abi_check.py:341-370) when the generator
\* succeeds: cwd_files are the storage format data files of the current
\* directory, tree the content of those of the worktree, listed what the
\* generator of the worktree lists.
StorageFormatTests(cwd_files, tree, listed) ==
    LET to_be_generated == {f \in listed : HasStorageFormat(f)}
        storage_data_files == Glob(cwd_files, DOMAIN tree) \cup to_be_generated
        generated == [f \in (DOMAIN tree) \cup to_be_generated |->
                         IF f \in to_be_generated THEN GeneratedFile(f)
                         ELSE tree[f]]
    IN  ReadFiles(SortedSeq(storage_data_files), 1, generated,
                  to_be_generated,
                  [raised |-> FALSE, parsed |-> {}, storage_tests |-> <<>>])

\* The worktrees: some of the storage format data files, each with some
\* content.
Worktrees ==
    UNION {[present -> HandWrittenFiles] : present \in SUBSET StorageDataFiles}

\* One call of _get_storage_format_tests.
CollectInit ==
    /\ cfg = DefaultConfiguration
    /\ NotStarted
    /\ call_args \in [cwd_files : SUBSET StorageDataFiles,
                      tree : Worktrees,
                      listed : SUBSET ({OtherDataFile} \cup StorageDataFiles)]
    /\ call_result = <<>>

CollectCall ==
    /\ call_result = <<>>
    /\ call_result' = <<StorageFormatTests(call_args.cwd_files,
                                           call_args.tree, call_args.listed)>>
    /\ UNCHANGED <<call_args, runVars>>

CollectSpec == CollectInit /\ [][CollectCall]_vars

----
\* The XML report of brief mode.  An element is its tag and the list of its
\* children.

Element(tag, children) == [tag |-> tag, children |-> children]

\* The tags _remove_extra_detail_from_report removes (abi_check.py:402-403).
ExtraDetailTags ==
    <<"test_info", "test_results", "problem_summary", "added_symbols",
      "affected">>

\* list.remove of the element at position i.
RemoveAt(list, i) == SubSeq(list, 1, i - 1) \o SubSeq(list, i + 1, Len(list))

\* _remove_children_with_tag (abi_check.py:393-399).  parent.getchildren()
\* returns the list of children itself in the Python implementation of
\* ElementTree and a copy of it in the C one: live tells which.  With the
\* list itself, the for loop goes on at position i + 1 of the list it has
\* just shortened.
RECURSIVE RemoveChildrenWithTag(_, _, _)
RECURSIVE ForChildLive(_, _, _)
RECURSIVE ForChildCopy(_, _, _)
ForChildLive(children, i, tag) ==
    IF i > Len(children) THEN children
    ELSE IF children[i].tag = tag
    THEN ForChildLive(RemoveAt(children, i), i + 1, tag)
    ELSE ForChildLive(
            [children EXCEPT ![i] = RemoveChildrenWithTag(@, tag, TRUE)],
            i + 1, tag)

ForChildCopy(children, i, tag) ==
    IF i > Len(children) THEN <<>>
    ELSE (IF children[i].tag = tag THEN <<>>
          ELSE <<RemoveChildrenWithTag(children[i], tag, FALSE)>>)
         \o ForChildCopy(children, i + 1, tag)

RemoveChildrenWithTag(parent, tag, live) ==
    [parent EXCEPT !.children =
        IF live THEN ForChildLive(@, 1, tag) ELSE ForChildCopy(@, 1, tag)]

\* The loop over the tags from position i on (abi_check.py:402-404).
RECURSIVE ForTag(_, _, _)
ForTag(report_root, i, live) ==
    IF i > Len(ExtraDetailTags) THEN report_root
    ELSE ForTag(RemoveChildrenWithTag(report_root, ExtraDetailTags[i], live),
                i + 1, live)

HasChildren(element) == element.children # <<>>

\* for problems in report.getchildren()[:]: remove it if it has no children
\* (abi_check.py:406-409).
RemoveEmptyProblems(report_root) ==
    [report_root EXCEPT !.children =
        [i \in DOMAIN @ |->
            [@[i] EXCEPT !.children = SelectSeq(@, HasChildren)]]]

\* _remove_extra_detail_from_report (abi_check.py:401-409).
RemoveExtraDetailFromReport(report_root, live) ==
    RemoveEmptyProblems(ForTag(report_root, 1, live))

\* Children of the root element of a report: details, and report elements
\* with problem lists in which details are alone, adjacent, next to other
\* elements or below them.
SampleElements ==
    LET affected == Element("affected", <<>>)
        test_info == Element("test_info", <<>>)
        symbol == Element("symbol", <<>>)
    IN  { test_info,
          affected,
          Element("report", <<>>),
          Element("report", <<Element("problems", <<affected>>)>>),
          Element("report",
                  <<Element("problems", <<affected, affected, symbol>>)>>),
          Element("report",
                  <<test_info,
                    Element("problems", <<test_info, symbol>>)>>),
          Element("report",
                  <<Element("problems",
                            <<Element("symbol", <<affected>>)>>)>>) }

\* The report trees: a root with at most MaxChildren sample elements.
ReportTrees ==
    {Element("reports", children) :
        children \in UNION {[1..k -> SampleElements] : k \in 0..MaxChildren}}

\* One call of _remove_extra_detail_from_report on a parsed report.
PruneInit ==
    /\ cfg = DefaultConfiguration
    /\ NotStarted
    /\ call_args \in [report_root : ReportTrees]
    /\ call_result = <<>>

PruneCall ==
    /\ call_result = <<>>
    /\ \E live \in BOOLEAN :
          call_result' =
              <<[live |-> live,
                 report_root |->
                     RemoveExtraDetailFromReport(call_args.report_root, live)]>>
    /\ UNCHANGED <<call_args, runVars>>

PruneSpec == PruneInit /\ [][PruneCall]_vars

----
\* Definitions used by the properties.

Terminated == pc = "done"
\* get_abi_compatibility_report returned and run_main passed its value to
\* sys.exit.
ReportReturned == pc = "done" /\ raised_at = "none" /\ cfg.report_dir # "file"
Shared == modules["old"] \cap modules["new"]
PipelineSteps == {"worktree", "submodules", "build", "dump", "storage",
                  "cleanup"}
\* The test cases the report lists as disappeared.
Disappeared ==
    {compatibility_report[i].test_data :
        i \in {j \in DOMAIN compatibility_report :
                  compatibility_report[j].kind = "disappeared"}}
InterfaceIncompatible == \E m \in Modules : verdict[m] = "incompatible"
StorageIncompatible ==
    cfg.check_storage /\
    (DOMAIN storage_tests["old"]) \ (DOMAIN storage_tests["new"]) # {}
NoSideEffect ==
    /\ \A v \in Versions : worktree[v] = "none"
    /\ ~tools_invoked
    /\ report_dir = cfg.report_dir
    /\ dump_files = {}
    /\ report_files = {}

\* C1: with consistent switches and a report path that is not a plain file,
\* a terminated run has exit status 2 if a tool or filesystem step failed,
\* else 1 if a checked axis reported an incompatibility, else 0.
C1_ExitCodeMapping ==
    (Terminated /\ cfg.check_abi = cfg.check_api /\ cfg.report_dir # "file")
    => exit_status = IF tool_failed THEN 2
                     ELSE IF InterfaceIncompatible \/ StorageIncompatible
                          THEN 1
                          ELSE 0

\* C2: when the run has terminated, every snapshot directory that was created
\* has been deleted, exactly once.
C2_SnapshotDeletedOnce ==
    Terminated =>
        \A v \in Versions :
            worktree[v] # "none" => (worktree[v] = "removed" /\ removals[v] = 1)

\* C3: when a step of the new-revision pipeline raised, the run ends with the
\* old revision's snapshot directory deleted and exit status 2.
C3_NewPipelineFailure ==
    (Terminated /\ cur = "new" /\ raised_at \in PipelineSteps)
    => (worktree["old"] = "removed" /\ exit_status = 2)

\* C3 witness: the build of the new revision raised.
C3_Witness ==
    /\ Terminated
    /\ cur = "new"
    /\ raised_at = "build"
    /\ modules["old"] # {}

\* C4: once the storage check has run, the test cases reported as disappeared
\* are exactly keys(old) minus keys(new), and the check returned true exactly
\* when there is none.
C4_SetDifference ==
    storage_verdict # "none" =>
        /\ Disappeared =
              (DOMAIN storage_tests["old"]) \ (DOMAIN storage_tests["new"])
        /\ (storage_verdict = "compatible") = (Disappeared = {})

\* C4 witness: one old test case is preserved and another one disappeared.
C4_Witness ==
    /\ storage_verdict = "incompatible"
    /\ Cardinality(DOMAIN storage_tests["old"]) = 2
    /\ Cardinality(DOMAIN storage_tests["new"]) = 1
    /\ Cardinality(Disappeared) = 1

\* C5: the value get_abi_compatibility_report returns is 0 exactly when
\* (interface checking is off or every shared module compared compatible) and
\* (storage checking is off or no old test case is missing); otherwise 1.
C5_ReportVerdict ==
    ReportReturned =>
        /\ compliance_return_code \in {0, 1}
        /\ exit_status = compliance_return_code
        /\ (compliance_return_code = 0) =
              (/\ (~cfg.check_abi \/ \A m \in Shared : returncode[m] = 0)
               /\ (~cfg.check_storage \/
                     (DOMAIN storage_tests["old"]) \
                        (DOMAIN storage_tests["new"]) = {}))

\* C5 witness: storage checking is off, two modules were compared, one of
\* them incompatible, and 1 is returned.
C5_Witness ==
    /\ ReportReturned
    /\ ~cfg.check_storage
    /\ \E m, n \in Shared : returncode[m] = 1 /\ returncode[n] = 0
    /\ compliance_return_code = 1

\* C6: the comparator runs at most once per module and only for modules of
\* both versions; when the loop over the shared modules has ended, it has run
\* once for each of them, and the interface verdict is 1 exactly when one of
\* them compared incompatible.
C6_SharedModulesCompared ==
    /\ \A m \in Modules : calls[m] <= 1
    /\ \A m \in Modules : calls[m] = 1 => m \in Shared
    /\ (cfg.check_abi /\
        (pc \in {"storage_diff", "finish"} \/
         (Terminated /\ raised_at \in {"none", "remove_dumps", "rmdir"} /\
          cfg.report_dir # "file")))
       => \A m \in Shared : calls[m] = 1
    /\ pc = "storage_diff"
       => (compliance_return_code = 1) = (\E m \in Shared : returncode[m] = 1)

\* C6 witness: a module exists only in the old version, the shared one was
\* compared and the interface verdict is compatible.
C6_Witness ==
    /\ pc = "storage_diff"
    /\ modules["old"] \ modules["new"] # {}
    /\ Shared # {}
    /\ \A m \in Shared : calls[m] = 1
    /\ compliance_return_code = 0

C8_ConfigurationRejected ==
    (cfg.check_abi # cfg.check_api) =>
        /\ NoSideEffect
        /\ pc \in {"parse_args", "init", "done"}
        /\ (Terminated /\ cfg.report_dir # "file")
           => (raised_at = "init" /\ exit_status = 2)

\* C8 witness: the constructor raised for check_abi without check_api.
C8_Witness ==
    /\ Terminated
    /\ raised_at = "init"
    /\ cfg.check_abi
    /\ ~cfg.check_api

\* C9: when the report path is an existing plain file, the run stops before
\* any snapshot, build, dump or comparison step and exits with status 2.
C9_ReportPathIsFile ==
    (Terminated /\ cfg.report_dir = "file")
    => (NoSideEffect /\ exit_status = 2)

\* C10: when the run has terminated, no snapshot directory and no dump file
\* is left, and the report files left are those of modules found
\* incompatible, plus those of all compared modules under keep_all_reports.
C10_NothingOutlivesRun ==
    Terminated =>
        /\ \A v \in Versions : worktree[v] # "present"
        /\ dump_files = {}
        /\ report_files \subseteq
              ({m \in Modules : verdict[m] = "incompatible"} \cup
               IF cfg.keep_all_reports
               THEN {m \in Modules : verdict[m] # "none"}
               ELSE {})

\* The loop over the shared modules, the storage check and the removal of
\* the dumps have all run (the removal of the report directory may have
\* raised).
DiffStageEnded ==
    Terminated /\ raised_at \in {"none", "rmdir"} /\ cfg.report_dir # "file"

\* C11: when the diff stage has run to its end, no dump file of the old or of
\* the new revision is left, whatever was found and whatever the switches.
C11_DumpsRemoved == DiffStageEnded => dump_files = {}

\* C11 witness: the versions had different modules dumped, one of the shared
\* ones compared incompatible, keep_all_reports is set, and no dump is left.
C11_Witness ==
    /\ DiffStageEnded
    /\ cfg.keep_all_reports
    /\ abi_dumps["old"] \ abi_dumps["new"] # {}
    /\ InterfaceIncompatible
    /\ dump_files = {}

\* The entries of the report about module m of the given kind.
EntriesOf(kind, m) ==
    {i \in DOMAIN compatibility_report :
        /\ compatibility_report[i].kind = kind
        /\ compatibility_report[i].module = m}

\* C12: in full mode the report file of a module found incompatible is on
\* disk and its path is in the entry of that module; the report file of a
\* module found compatible is on disk exactly when keep_all_reports is set.
C12_FullModeReports ==
    ~cfg.brief =>
        \A m \in Modules :
            /\ verdict[m] = "incompatible" =>
                  /\ m \in report_files
                  /\ \E i \in EntriesOf("incompatible", m) :
                        compatibility_report[i].path = m
            /\ verdict[m] = "compatible" =>
                  ((m \in report_files) = cfg.keep_all_reports)

\* C12 witness: full mode without keep_all_reports, one module compatible
\* (report removed) and one incompatible (report kept).
C12_Witness ==
    /\ ~cfg.brief
    /\ ~cfg.keep_all_reports
    /\ \E m, n \in Modules :
          /\ verdict[m] = "compatible" /\ m \notin report_files
          /\ verdict[n] = "incompatible" /\ n \in report_files

\* C13: when the diff stage ends, a report directory that did not exist at
\* construction is gone if keep_all_reports is off and no incompatible
\* module left a report, and the stage returns normally; otherwise the
\* directory is not removed.
C13_ReportDirRemoval ==
    (DiffStageEnded /\ cfg.check_abi = cfg.check_api) =>
        /\ raised_at = "none"
        /\ IF /\ cfg.report_dir = "absent"
              /\ ~cfg.keep_all_reports
              /\ report_files = {}
           THEN report_dir = "absent"
           ELSE (cfg.report_dir = "dir" \/ report_files # {} \/
                 \E v \in Versions : abi_dumps[v] # {})
                => report_dir = "dir"

\* C18: a snapshot of the new revision exists only after the snapshot of the
\* old one was deleted, the diff stage runs only after the snapshot of the
\* new one was deleted, and the two snapshots never exist together.
C18_Sequential ==
    /\ worktree["new"] # "none" => (worktree["old"] = "removed" /\ cur = "new")
    /\ cur = "old" => (modules["new"] = {} /\ abi_dumps["new"] = {} /\
                       storage_tests["new"] = <<>> /\ commit["new"] = "None")
    /\ (pc \in {"report", "compare", "storage_diff", "finish"} \/
        (Terminated /\ raised_at \in {"none", "compare", "remove_dumps", "rmdir"}
         /\ cfg.report_dir # "file"))
       => (worktree["old"] = "removed" /\ worktree["new"] = "removed")
    /\ ~(worktree["old"] = "present" /\ worktree["new"] = "present")

\* C18 witness: the new snapshot exists and the old pipeline has left its
\* results.
C18_Witness ==
    /\ worktree["new"] = "present"
    /\ worktree["old"] = "removed"
    /\ modules["old"] # {}
    /\ pc = "build"

\* The number of entries of the report of one of the given kinds.
CountKind(kinds) ==
    Cardinality({i \in DOMAIN compatibility_report :
                    compatibility_report[i].kind \in kinds})

\* C20: after the interface and storage stages the report holds exactly one
\* entry for each module compared, compatible or not, in full and in brief
\* mode, and for the storage check one entry per missing test case and one
\* summary entry.
C20_ReportEntries ==
    pc = "finish" =>
        /\ \A m \in Shared :
              Cardinality(EntriesOf("compatible", m) \cup
                          EntriesOf("incompatible", m)) = 1
        /\ cfg.check_storage =>
              /\ CountKind({"disappeared"}) =
                    Cardinality((DOMAIN storage_tests["old"]) \
                                (DOMAIN storage_tests["new"]))
              /\ CountKind({"summary"}) = 1

\* The line with the piece a inserted after its first i pieces.
Inserted(line, i, a) ==
    SubSeq(line, 1, i) \o <<a>> \o SubSeq(line, i + 1, Len(line))

\* C16: normalizing a normalized line changes nothing, and a line with
\* whitespace added anywhere normalizes to what the line normalizes to.
C16_Normalization ==
    /\ Len(call_result) = 2 => call_result[2] = call_result[1]
    /\ Len(call_result) >= 1 =>
          \A i \in 0..Len(call_args.line) : \A a \in Whitespace :
              NormalizeStorageTestCaseData(Inserted(call_args.line, i, a))
                  = call_result[1]

\* C16 witness: a line with whitespace inside and around it was normalized
\* twice.
C16_Witness ==
    /\ Len(call_result) = 2
    /\ call_args.line = <<" ", "read", "\t">>
    /\ call_result[1] = <<"read">>

\* A line of whitespace only.
Blank(line) == \A i \in DOMAIN line : line[i] \in Whitespace

\* The line's first piece that is not whitespace is at i and starts the
\* text prefix.
BeginsWith(line, prefix) ==
    \E i \in DOMAIN line :
        /\ \A j \in 1..(i - 1) : line[j] \in Whitespace
        /\ line[i] \notin Whitespace
        /\ i + Len(prefix) - 1 <= Len(line)
        /\ \A j \in DOMAIN prefix : line[i + j - 1] = prefix[j]

\* The line at i is neither blank nor a comment.
Content(lines, i) ==
    ~Blank(lines[i]) /\ ~BeginsWith(lines[i], <<"#">>)

\* The line at i is the first content line of its paragraph: no content
\* line lies between it and the blank line (or the file start) before it.
Leads(lines, i) ==
    /\ Content(lines, i)
    /\ \A j \in 1..(i - 1) :
          Content(lines, j) => \E k \in (j + 1)..(i - 1) : Blank(lines[k])

\* The line at i is a test case data line.
DataLine(lines, i) ==
    /\ Content(lines, i)
    /\ ~BeginsWith(lines[i], DependsOn)
    /\ ~Leads(lines, i)

\* C17: the lines the parser takes for test case data are exactly the
\* content lines that are not a dependency list and do not lead their
\* paragraph; a leading line is never inserted, and every inserted test
\* case carries the leading line of its paragraph as its description.
C17_DataLines ==
    call_result # <<>> =>
        LET lines == call_args.lines
            st == call_result[1]
        IN  /\ st.data_lines = {i \in DOMAIN lines : DataLine(lines, i)}
            /\ \A t \in DOMAIN st.storage_tests :
                  LET n == st.storage_tests[t].line_number
                  IN  /\ n \in DOMAIN lines
                      /\ ~Leads(lines, n)
                      /\ \E d \in 1..(n - 1) :
                            /\ Leads(lines, d)
                            /\ \A k \in d..n : ~Blank(lines[k])
                            /\ st.storage_tests[t].description
                                   = Strip(lines[d])

\* C17 witness: a file with a dependency list leading a paragraph, then a
\* data line, a blank line, and a new description without data.
C17_Witness ==
    /\ call_result # <<>>
    /\ call_args.lines = << <<"depends", "_", "on", ":", "save">>,
                            <<"save", "_", "read", ":", "save">>,
                            <<" ">> >>
    /\ call_result[1].data_lines = {2}
    /\ call_result[1].description = <<"depends", "_", "on", ":", "save">>

\* The text before the first ':' holds 'read' between two '_' or ends.
ReadToken(test_case_data) ==
    LET function_name == Before(test_case_data, ":")
    IN  \E i \in DOMAIN function_name :
            /\ function_name[i] = "read"
            /\ i = 1 \/ function_name[i - 1] = "_"
            /\ i = Len(function_name) \/ function_name[i + 1] = "_"

\* C14: from a hand-written file the parser keeps exactly the data lines
\* whose function name has the token 'read'; from a generated file it keeps
\* every data line.
C14_ReadFilter ==
    call_result # <<>> =>
        LET lines == call_args.lines
            st == call_result[1]
        IN  DOMAIN st.storage_tests =
                { NormalizeStorageTestCaseData(lines[i]) :
                    i \in { j \in st.data_lines :
                              \/ call_args.is_generated
                              \/ ReadToken(NormalizeStorageTestCaseData(
                                     lines[j])) } }

\* C14 witness: a hand-written file whose data lines are a read test and a
\* test of a function named readsave; only the read test is kept.
C14_Witness ==
    /\ call_result # <<>>
    /\ ~call_args.is_generated
    /\ call_args.lines = << <<"depends", "_", "on", ":", "save">>,
                            <<"save", " ", "_", "read", ":", "save", " ">>,
                            <<"read", "save", ":", "save">> >>
    /\ call_result[1].data_lines = {2, 3}
    /\ DOMAIN call_result[1].storage_tests =
           {<<"save", "_", "read", ":", "save">>}

\* C15: a storage test case that is a key of both maps is not reported as
\* disappeared and has no part in the verdict, and two pairs of maps with
\* the same keys give the same missing set and the same verdict whatever
\* the provenance recorded on either side.
C15_ProvenanceIrrelevant ==
    /\ \A i \in DOMAIN call_result :
          LET old_tests == call_args[i].old
              new_tests == call_args[i].new
              found == call_result[i].findings
          IN  /\ \A t \in (DOMAIN old_tests) \cap (DOMAIN new_tests) :
                    /\ t \notin call_result[i].missing
                    /\ \A j \in DOMAIN found :
                          found[j].kind = "disappeared"
                              => found[j].test_data # t
              /\ call_result[i].compatible =
                    (\A t \in DOMAIN old_tests : t \in DOMAIN new_tests)
    /\ Len(call_result) = 2 =>
          /\ call_result[1].missing = call_result[2].missing
          /\ call_result[1].compatible = call_result[2].compatible

\* C15 witness: both pairs were compared; a test case is in both maps of
\* each pair, with a provenance that differs between old and new and
\* between the pairs, and another test case is missing.
C15_Witness ==
    /\ Len(call_result) = 2
    /\ call_result[1].missing # {}
    /\ \E t \in (DOMAIN call_args[1].old) \cap (DOMAIN call_args[1].new) :
          /\ call_args[1].old[t] # call_args[1].new[t]
          /\ call_args[1].old[t] # call_args[2].old[t]
          /\ call_args[1].new[t] # call_args[2].new[t]

\* C19: the files parsed for a revision are the storage format data files
\* of its snapshot and those its generator lists, and the map collected is
\* the one any other content of the current directory gives.
C19_SnapshotAlone ==
    call_result # <<>> =>
        /\ ~call_result[1].raised
        /\ call_result[1].parsed =
              (DOMAIN call_args.tree)
              \cup {f \in call_args.listed : HasStorageFormat(f)}
        /\ \A cwd_files \in SUBSET StorageDataFiles :
              StorageFormatTests(cwd_files, call_args.tree,
                                 call_args.listed).storage_tests
                  = call_result[1].storage_tests

IsOtherTag(element) == element.tag \notin Range(ExtraDetailTags)

\* The tree without the elements of a removed tag and what is below them.
RECURSIVE WithoutExtraDetail(_)
WithoutExtraDetail(element) ==
    LET kept == SelectSeq(element.children, IsOtherTag)
    IN  Element(element.tag,
                [i \in DOMAIN kept |-> WithoutExtraDetail(kept[i])])

\* C22: after _remove_extra_detail_from_report no element of a removed tag
\* is left at any depth, adjacent siblings included, and every other element
\* that has no removed ancestor is still there.
C22_Pruned ==
    call_result # <<>> =>
        call_result[1].report_root = WithoutExtraDetail(call_args.report_root)

\* C21: the findings are the same sequence on every run with the same
\* modules, storage tests and comparator results: the entries of the modules
\* come in one order fixed by their names, whatever the iteration order of
\* the set of shared names, and the missing storage test cases come in
\* sorted order before the summary entry.
C21_DeterministicFindings ==
    \A i, j \in DOMAIN compatibility_report :
        LET first == compatibility_report[i]
            second == compatibility_report[j]
        IN  i < j =>
              /\ (first.kind \in {"compatible", "incompatible"} /\
                  second.kind \in {"compatible", "incompatible"})
                 => first.module < second.module
              /\ (first.kind = "disappeared" /\ second.kind = "disappeared")
                 => first.test_data < second.test_data
              /\ first.kind = "summary" => second.kind # "disappeared"

\* The content of the files of the worktree once the generator has run.
FilesRead ==
    [f \in call_result[1].parsed |->
        IF f \in call_args.listed THEN GeneratedFile(f) ELSE call_args.tree[f]]

\* The data lines that are inserted: <<file, line number>>, in reading
\* order when compared file first.
Occurrences ==
    {o \in UNION {{<<f, n>> : n \in DOMAIN FilesRead[f]} :
                  f \in call_result[1].parsed} :
        LET f == o[1]
            n == o[2]
        IN
        /\ DataLine(FilesRead[f], n)
        /\ \/ f \in call_args.listed
           \/ ReadToken(NormalizeStorageTestCaseData(FilesRead[f][n]))}

Identity(occurrence) ==
    NormalizeStorageTestCaseData(FilesRead[occurrence[1]][occurrence[2]])

Later(a, b) == a[1] > b[1] \/ (a[1] = b[1] /\ a[2] > b[2])

\* C23: the map has one entry for each identity that occurs, and its file
\* and line number are those of the occurrence read last, files in sorted
\* order and lines in file order, with the description in force there.
C23_LastOccurrenceWins ==
    call_result # <<>> =>
        LET tests == call_result[1].storage_tests
        IN  /\ DOMAIN tests = {Identity(o) : o \in Occurrences}
            /\ \A o \in Occurrences :
                  (\A other \in Occurrences :
                      Identity(other) = Identity(o) => ~Later(other, o))
                  => /\ tests[Identity(o)].filename = o[1]
                     /\ tests[Identity(o)].line_number = o[2]
                     /\ \E d \in 1..(o[2] - 1) :
                           /\ Leads(FilesRead[o[1]], d)
                           /\ \A k \in d..o[2] : ~Blank(FilesRead[o[1]][k])
                           /\ tests[Identity(o)].description
                                  = Strip(FilesRead[o[1]][d])

\* C23 witness: the same identity occurs twice in each of two files, under
\* two descriptions; the entry is that of the second file's last line.
C23_Witness ==
    /\ call_result # <<>>
    /\ ~call_result[1].raised
    /\ call_result[1].parsed = {1, 2}
    /\ call_args.listed = {}
    /\ Cardinality({o \in Occurrences :
           Identity(o) = <<"save", "_", "read", ":", "save">>}) = 4
    /\ LET entry == call_result[1].storage_tests[
                        <<"save", "_", "read", ":", "save">>]
       IN  /\ entry.filename = 2
           /\ entry.line_number = 5
           /\ entry.description = <<"on">>

\* C24: the build, the dump, the check of the tools and the comparator calls
\* happen only with interface checking on, the collection of the storage
\* tests and the storage check only with storage checking on; with both off
\* a run in which no tool fails has created and deleted both snapshots and
\* reports no incompatibility.
C24_SwitchesGate ==
    /\ (pc \in {"build", "dump"} \/ raised_at \in {"build", "dump", "compare"}
        \/ (\E m \in Modules : calls[m] > 0)
        \/ (\E v \in Versions : modules[v] # {} \/ abi_dumps[v] # {}))
       => cfg.check_abi
    /\ raised_at = "tools" => (cfg.check_abi \/ cfg.check_api)
    /\ (pc = "storage" \/ raised_at = "storage" \/ storage_verdict # "none"
        \/ (\E v \in Versions : storage_tests[v] # <<>>))
       => cfg.check_storage
    /\ (Terminated /\ ~tool_failed /\ cfg.report_dir # "file"
        /\ ~cfg.check_abi /\ ~cfg.check_api /\ ~cfg.check_storage)
       => /\ \A v \in Versions : worktree[v] = "removed" /\ removals[v] = 1
          /\ compliance_return_code = 0
          /\ exit_status # 1
          /\ \A i \in DOMAIN compatibility_report :
                compatibility_report[i].kind = "header"

\* C24 witness: a run with every check off has ended with status 0 after
\* creating and deleting both snapshots.
C24_Witness ==
    /\ Terminated
    /\ ~cfg.check_abi /\ ~cfg.check_api /\ ~cfg.check_storage
    /\ \A v \in Versions : worktree[v] = "removed" /\ commit[v] = "resolved"
    /\ exit_status = 0

\* C25: no step taken while the new revision is being processed, failing or
\* not, changes the modules, the dumps, the storage tests or the commit
\* recorded for the old revision.
C25_OldStateFrame ==
    [][cur = "new" =>
          /\ modules'["old"] = modules["old"]
          /\ abi_dumps'["old"] = abi_dumps["old"]
          /\ storage_tests'["old"] = storage_tests["old"]
          /\ commit'["old"] = commit["old"]]_vars

\* C25 witness: the new pipeline has ended after recording modules, dumps
\* and storage tests that differ from those the old revision still has.
C25_Witness ==
    /\ pc = "report"
    /\ modules["old"] # {} /\ modules["new"] # modules["old"]
    /\ modules["new"] # {}
    /\ abi_dumps["old"] = modules["old"]
    /\ storage_tests["old"] # <<>>
    /\ DOMAIN storage_tests["new"] # DOMAIN storage_tests["old"]
    /\ commit["old"] = "resolved"

====
